---- MODULE Spec2Model ----
(***************************************************************************)
(* Model of the snake engine, src/src/core/snake.js (class Snake).         *)
(*                                                                         *)
(* The state is the fields of one Snake object.  Every public method is    *)
(* one action; update() is modelled whole, including setDirection,         *)
(* computeNextHead, the crash test, move/shrink and spawnFood.             *)
(* Math.random() in spawnFood is a nondeterministic choice of the index.   *)
(***************************************************************************)
EXTENDS Integers, Sequences, FiniteSets, TLC

\* ------------------------------------------------------------------ bounds
\* Board sizes (width, height) an engine is constructed with.  8 is the
\* smallest width for which the constructor puts the whole body on the
\* board; on the 3x2 board the body starts at x = 0, -1, -2 and the snake
\* can turn, loop onto its own tail cell and fill the board.
Boards == { <<8, 1>>, <<3, 2>> }

\* update() is called at most MaxPostTicks times after an update() has
\* returned CRASH or COMPLETE (the engine itself never refuses a call).
MaxPostTicks == 1

\* The constructor alone is applied to every width in 1..MaxWidth and every
\* height in 1..MaxHeight (15x15 is the default board of main.js).
MaxWidth == 15
MaxHeight == 15

\* ------------------------------------------------------------ basic values
Coord(x, y) == [x |-> x, y |-> y]
Vector(vx, vy) == [vx |-> vx, vy |-> vy]

DIR_RIGHT == Vector(1, 0)
DIR_LEFT == Vector(-1, 0)
DIR_DOWN == Vector(0, 1)
DIR_UP == Vector(0, -1)
DIR == { DIR_RIGHT, DIR_LEFT, DIR_DOWN, DIR_UP }

END_CONTINUE == "CONTINUE"
END_CRASH == "CRASH"
END_COMPLETE == "COMPLETE"
\* no update() has returned yet
END_NONE == "NONE"

isSameCoord(a, b) == a.x = b.x /\ a.y = b.y

\* arr.some(seg => isSameCoord(seg, c))
someSame(arr, c) == \E i \in 1..Len(arr) : isSameCoord(arr[i], c)

\* --------------------------------------------------------------- variables
VARIABLES
    mapSize,            \* this.mapSize  {width, height}
    mapArea,            \* this.mapArea
    body,               \* this.body, head first
    food,               \* this.food
    direction,          \* this.direction
    nextDirectionQueue, \* this.nextDirectionQueue
    growFlag,           \* this.growFlag
    willStepOver,       \* this.willStepOver
    outcome,            \* value returned by the last update()
    ended,              \* some update() has returned CRASH or COMPLETE
    nextHead,           \* local nextHead of the last update()
    eating,             \* local eating of the last update()
    reversal,           \* the last call was an update() whose isOpposite held
    dropped,            \* the last setnextDirection since update() returned early
    postTicks           \* number of update() calls made after ended

vars == <<mapSize, mapArea, body, food, direction, nextDirectionQueue,
          growFlag, willStepOver, outcome, ended, nextHead,
          eating, reversal, dropped, postTicks>>

\* ------------------------------------------------------------- constructor
centerX(mapWidth) == mapWidth \div 2

\* faulty variant: the parity of the height is not tested
centerY_evenOnly(mapHeight) == (mapHeight \div 2) - 1

centerY(mapHeight) ==
    IF mapHeight % 2 = 0 THEN (mapHeight \div 2) - 1 ELSE mapHeight \div 2

\* faulty variant: d = 1 for every width up to 5
spread_upTo5(mapWidth) == IF mapWidth <= 5 THEN 1 ELSE 2

spread(mapWidth) == IF mapWidth <= 3 THEN 1 ELSE IF mapWidth = 5 THEN 1 ELSE 2

leftX(mapWidth) == centerX(mapWidth) - spread(mapWidth)

\* faulty variant: the parity of the width is not tested
rightX_oddOnly(mapWidth) == centerX(mapWidth) + spread(mapWidth)

rightX(mapWidth) ==
    IF mapWidth % 2 = 0
    THEN centerX(mapWidth) + spread(mapWidth) - 1
    ELSE centerX(mapWidth) + spread(mapWidth)

initBody(mapWidth, mapHeight) ==
    << Coord(leftX(mapWidth), centerY(mapHeight)),
       Coord(leftX(mapWidth) - 1, centerY(mapHeight)),
       Coord(leftX(mapWidth) - 2, centerY(mapHeight)) >>

initFood(mapWidth, mapHeight) ==
    << Coord(rightX(mapWidth), centerY(mapHeight)) >>

maxQueueLen == 2

Init ==
    \E b \in Boards :
        /\ mapSize = [width |-> b[1], height |-> b[2]]
        /\ mapArea = b[1] * b[2]
        /\ body = initBody(b[1], b[2])
        /\ food = initFood(b[1], b[2])
        /\ direction = DIR_RIGHT
        /\ nextDirectionQueue = << >>
        /\ growFlag = FALSE
        /\ willStepOver = FALSE
        /\ outcome = END_NONE
        /\ ended = FALSE
        /\ nextHead = Coord(leftX(b[1]), centerY(b[2]))
        /\ eating = FALSE
        /\ reversal = FALSE
        /\ dropped = FALSE
        /\ postTicks = 0

\* ---------------------------------------------------------- pure helpers
\* faulty variant: reports the board full one cell too late
isMapFull_late(b, area) == Len(b) = area + 1

isMapFull(b, area) == Len(b) = area

\* faulty variant: no capacity test
setnextDirection_nocap(queue, v) ==
    IF Len(queue) > 0 /\ queue[Len(queue)].vx = v.vx
                      /\ queue[Len(queue)].vy = v.vy
    THEN queue
    ELSE Append(queue, v)

\* the queue after setnextDirection(vx, vy)
setnextDirection(queue, v) ==
    IF Len(queue) >= maxQueueLen THEN queue
    ELSE IF Len(queue) > 0 /\ queue[Len(queue)].vx = v.vx
                           /\ queue[Len(queue)].vy = v.vy
    THEN queue
    ELSE Append(queue, v)

\* faulty variant: a rejected reversal stays at the front of the queue
setDirection_keep(dir, queue) ==
    IF Len(queue) = 0 THEN [direction |-> dir, queue |-> queue]
    ELSE LET isOpposite == queue[1].vx = -dir.vx /\ queue[1].vy = -dir.vy
         IN IF isOpposite
            THEN [direction |-> dir, queue |-> queue]
            ELSE [direction |-> queue[1], queue |-> Tail(queue)]

\* direction and queue after setDirection()
setDirection(dir, queue) ==
    IF Len(queue) = 0 THEN [direction |-> dir, queue |-> queue]
    ELSE LET isOpposite == queue[1].vx = -dir.vx /\ queue[1].vy = -dir.vy
         IN [direction |-> IF ~isOpposite THEN queue[1] ELSE dir,
             queue |-> Tail(queue)]

move(b, head) == <<head>> \o b

shrink(b) == SubSeq(b, 1, Len(b) - 1)

\* the value computeNextHead() returns; it also clears willStepOver
\* faulty variant: the heading is doubled on every call
computeNextHead_double(b, dir, stepOver) ==
    Coord(b[1].x + 2 * dir.vx, b[1].y + 2 * dir.vy)

\* faulty variant: willStepOver is not consulted
computeNextHead_single(b, dir, stepOver) ==
    Coord(b[1].x + dir.vx, b[1].y + dir.vy)

computeNextHead(b, dir, stepOver) ==
    LET k == IF stepOver THEN 2 ELSE 1
    IN Coord(b[1].x + k * dir.vx, b[1].y + k * dir.vy)

hitwall(head, size) ==
    \/ head.x < 0 \/ head.x >= size.width
    \/ head.y < 0 \/ head.y >= size.height

\* faulty variant: the tail cell counts as a collision too
hitSelf_whole(head, b) ==
    someSame(b, head)

hitSelf(head, b) ==
    LET bodyExceptTail == SubSeq(b, 1, Len(b) - 1)
    IN someSame(bodyExceptTail, head)

willCrash(head, b, size) == hitwall(head, size) \/ hitSelf(head, b)

willEat(head, f) == someSame(f, head)

\* faulty variant: growFlag is ignored
keepsTail_eatOnly(flag, eat) == eat

\* update() keeps the tail: "if (this.growFlag || eating)"
keepsTail(flag, eat) == flag \/ eat

\* every board cell in the order of the two loops of spawnFood: x outer
boardCells(size) ==
    [i \in 1..(size.width * size.height) |->
        Coord((i - 1) \div size.height, (i - 1) % size.height)]

\* faulty variant: cells under the body count as empty
emptyCells_foodOnly(b, f, size) ==
    SelectSeq(boardCells(size),
              LAMBDA xy : ~someSame(f, xy))

\* the array emptyCells of spawnFood
emptyCells(b, f, size) ==
    SelectSeq(boardCells(size),
              LAMBDA xy : ~(\/ someSame(b, xy)
                            \/ someSame(f, xy)))

\* the values this.food can have after spawnFood(head): one per value of
\* Math.floor(Math.random() * emptyCells.length)
\* faulty variant: the bonus branch is active and may add a second food
spawnFood_bonus(head, b, f, size, area) ==
    IF isMapFull(b, area) THEN { f }
    ELSE LET kept == SelectSeq(f, LAMBDA seg : ~isSameCoord(seg, head))
             cells == emptyCells(b, kept, size)
             one == { Append(kept, cells[rng + 1]) :
                        rng \in 0..(Len(cells) - 1) }
             two == UNION { { Append(Append(kept, cells[i]), cells[j]) :
                                j \in 1..Len(cells) \ {i} } :
                            i \in 1..Len(cells) }
         IN IF Len(cells) = 0 THEN { kept } ELSE one \cup two

spawnFood(head, b, f, size, area) ==
    IF isMapFull(b, area) THEN { f }
    ELSE LET kept == SelectSeq(f, LAMBDA seg : ~isSameCoord(seg, head))
             cells == emptyCells(b, kept, size)
         IN IF Len(cells) = 0 THEN { kept }
            ELSE { Append(kept, cells[rng + 1]) : rng \in 0..(Len(cells) - 1) }

\* ------------------------------------------------------------------ actions
SetnextDirection(v) ==
    /\ nextDirectionQueue' = setnextDirection(nextDirectionQueue, v)
    /\ dropped' = (nextDirectionQueue' = nextDirectionQueue)
    /\ reversal' = FALSE
    /\ UNCHANGED <<mapSize, mapArea, body, food, direction, growFlag,
                   willStepOver, outcome, ended, nextHead, eating,
                   postTicks>>

Grow ==
    /\ growFlag' = TRUE
    /\ reversal' = FALSE
    /\ UNCHANGED <<mapSize, mapArea, body, food, direction,
                   nextDirectionQueue, willStepOver, outcome, ended,
                   nextHead, eating, dropped, postTicks>>

StepOver ==
    /\ willStepOver' = TRUE
    /\ reversal' = FALSE
    /\ UNCHANGED <<mapSize, mapArea, body, food, direction,
                   nextDirectionQueue, growFlag, outcome, ended,
                   nextHead, eating, dropped, postTicks>>

\* faulty variant: shrink() has run before the crash test
UpdateCrash_shrinks ==
    /\ body' = IF Len(body) > 3 THEN shrink(body) ELSE body
    /\ UNCHANGED <<food, growFlag>>
    /\ eating' = FALSE
    /\ outcome' = END_CRASH

\* faulty variant: growFlag is cleared before the crash test
UpdateCrash_clearsGrow ==
    /\ growFlag' = FALSE
    /\ UNCHANGED <<body, food>>
    /\ eating' = FALSE
    /\ outcome' = END_CRASH

\* "return END_REASONS.CRASH": nothing after the crash test has run
UpdateCrash ==
    /\ UNCHANGED <<body, food, growFlag>>
    /\ eating' = FALSE
    /\ outcome' = END_CRASH

\* faulty variant: growFlag is not cleared
UpdateMove_keepsGrow(head) ==
    LET moved == move(body, head)
        eat == willEat(head, food)
        after == IF keepsTail(growFlag, eat) THEN moved ELSE shrink(moved)
    IN /\ body' = after
       /\ growFlag' = growFlag
       /\ eating' = eat
       /\ IF eat
          THEN food' \in spawnFood(head, after, food, mapSize, mapArea)
          ELSE food' = food
       /\ outcome' = IF isMapFull(after, mapArea)
                     THEN END_COMPLETE ELSE END_CONTINUE

\* the rest of update() after the crash test, for the candidate head
UpdateMove(head) ==
    LET moved == move(body, head)
        eat == willEat(head, food)
        after == IF keepsTail(growFlag, eat) THEN moved ELSE shrink(moved)
    IN /\ body' = after
       /\ growFlag' = FALSE
       /\ eating' = eat
       /\ IF eat
          THEN food' \in spawnFood(head, after, food, mapSize, mapArea)
          ELSE food' = food
       /\ outcome' = IF isMapFull(after, mapArea)
                     THEN END_COMPLETE ELSE END_CONTINUE

Update ==
    /\ ended => postTicks < MaxPostTicks
    /\ postTicks' = IF ended THEN postTicks + 1 ELSE postTicks
    /\ LET sd == IF Len(nextDirectionQueue) # 0
                 THEN setDirection(direction, nextDirectionQueue)
                 ELSE [direction |-> direction, queue |-> nextDirectionQueue]
           head == computeNextHead(body, sd.direction, willStepOver)
       IN /\ direction' = sd.direction
          /\ nextDirectionQueue' = sd.queue
          /\ reversal' = (/\ Len(nextDirectionQueue) # 0
                          /\ nextDirectionQueue[1].vx = -direction.vx
                          /\ nextDirectionQueue[1].vy = -direction.vy)
          /\ willStepOver' = FALSE
          /\ nextHead' = head
          /\ IF willCrash(head, body, mapSize)
             THEN UpdateCrash
             ELSE UpdateMove(head)
    /\ ended' = (ended \/ outcome' \in {END_CRASH, END_COMPLETE})
    /\ dropped' = FALSE
    /\ UNCHANGED <<mapSize, mapArea>>

Next ==
    \/ \E v \in DIR : SetnextDirection(v)
    \/ Grow
    \/ StepOver
    \/ Update

Spec == Init /\ [][Next]_vars

\* ------------------------------------------ runs that never call stepOver()
NoStepOverNext ==
    \/ \E v \in DIR : SetnextDirection(v)
    \/ Grow
    \/ Update

NoStepOverSpec == Init /\ [][NoStepOverNext]_vars

\* ----------------------------------------------- the constructor, applied
\* new Snake(mapWidth, mapHeight) is about to run: mapSize holds the two
\* arguments and no other field has been assigned.
CtorInit ==
    \E w \in 1..MaxWidth, h \in 1..MaxHeight :
        /\ mapSize = [width |-> w, height |-> h]
        /\ mapArea = 0
        /\ body = << >>
        /\ food = << >>
        /\ direction = Vector(0, 0)
        /\ nextDirectionQueue = << >>
        /\ growFlag = FALSE
        /\ willStepOver = FALSE
        /\ outcome = END_NONE
        /\ ended = FALSE
        /\ nextHead = Coord(0, 0)
        /\ eating = FALSE
        /\ reversal = FALSE
        /\ dropped = FALSE
        /\ postTicks = 0

\* the body of the constructor
Construct ==
    /\ body = << >>
    /\ mapArea' = mapSize.width * mapSize.height
    /\ body' = initBody(mapSize.width, mapSize.height)
    /\ food' = initFood(mapSize.width, mapSize.height)
    /\ direction' = DIR_RIGHT
    /\ nextDirectionQueue' = << >>
    /\ growFlag' = FALSE
    /\ willStepOver' = FALSE
    /\ nextHead' = Coord(leftX(mapSize.width), centerY(mapSize.height))
    /\ UNCHANGED <<mapSize, outcome, ended, eating, reversal, dropped,
                   postTicks>>

CtorNext == Construct

CtorSpec == CtorInit /\ [][CtorNext]_vars


\* ------------------------------------------------- vocabulary of the claims
Cells(arr) == { arr[i] : i \in 1..Len(arr) }

NoTwoEqual(arr) ==
    \A i, j \in 1..Len(arr) : i # j => arr[i] # arr[j]

OnBoard(c) ==
    /\ 0 <= c.x /\ c.x < mapSize.width
    /\ 0 <= c.y /\ c.y < mapSize.height

BoardSet ==
    { Coord(x, y) : x \in 0..(mapSize.width - 1), y \in 0..(mapSize.height - 1) }

Negated(v) == Vector(-v.vx, -v.vy)

\* the heading an update() uses: the front entry unless it is the reverse
HeadingFor(dir, queue) ==
    IF Len(queue) = 0 THEN dir
    ELSE IF queue[1] = Negated(dir) THEN dir ELSE queue[1]

\* head plus k times the heading v
Ahead(b, v, k) == Coord(b[1].x + k * v.vx, b[1].y + k * v.vy)

\* the candidate head of the update() step from this state
Candidate ==
    Ahead(body, HeadingFor(direction, nextDirectionQueue),
          IF willStepOver THEN 2 ELSE 1)

\* the food left once the cell c has been eaten
Uneaten(f, c) == SelectSeq(f, LAMBDA seg : seg # c)

\* ------------------------------------------------------------------ claims

\* C1: after every completed update(), whatever it returned and whatever
\* calls preceded it, no two elements of the body are the same cell.
C1_BodyCellsDistinct ==
    outcome # END_NONE => NoTwoEqual(body)

\* C2: update() returns CRASH exactly when the candidate head (head plus
\* heading, after the queued direction has been applied) is outside the
\* board or equals a body element other than the last one; a candidate
\* equal to the tail cell only does not crash, a candidate equal to the
\* second segment of a length-3 snake does.
C2_CrashExactly ==
    [][Update =>
        /\ (outcome' = END_CRASH) <=>
              (\/ ~OnBoard(Candidate)
               \/ \E i \in 1..(Len(body) - 1) : body[i] = Candidate)
        /\ (/\ OnBoard(Candidate)
            /\ Candidate = body[Len(body)]
            /\ \A i \in 1..(Len(body) - 1) : body[i] # Candidate)
              => outcome' # END_CRASH
        /\ (Len(body) = 3 /\ Candidate = body[2]) => outcome' = END_CRASH
      ]_vars

\* C2 witness: a length-3 snake has just crashed into its second segment.
C2_Witness ==
    /\ outcome = END_CRASH
    /\ Len(body) = 3
    /\ nextHead = body[2]
    /\ OnBoard(nextHead)

\* C3: an update() that returns CONTINUE leaves the body as long as it was
\* or one longer, never shorter; one longer exactly when growFlag was set or
\* the new head is a food cell (one only, also when both hold); the new body
\* is the candidate head followed by the old body, without its last element
\* iff nothing grew.
C3_LengthChange ==
    [][(Update /\ outcome' = END_CONTINUE) =>
        LET grew == growFlag \/ Candidate \in Cells(food)
        IN /\ Len(body') \in { Len(body), Len(body) + 1 }
           /\ (Len(body') = Len(body) + 1) <=> grew
           /\ body' = IF grew
                      THEN <<Candidate>> \o body
                      ELSE <<Candidate>> \o SubSeq(body, 1, Len(body) - 1)
      ]_vars

\* C3 witness: the snake of three cells has eaten and is four cells long.
C3_Witness ==
    /\ outcome = END_CONTINUE
    /\ eating
    /\ Len(body) = 4

\* C4: an update() with a non-empty queue removes exactly the front entry,
\* whatever it returns; the heading becomes that entry unless the entry is
\* the negation of the heading held before the call, and then the heading
\* is unchanged; with an empty queue the heading is unchanged.
C4_QueueConsumed ==
    [][Update =>
        IF Len(nextDirectionQueue) > 0
        THEN /\ nextDirectionQueue' = Tail(nextDirectionQueue)
             /\ direction' = IF nextDirectionQueue[1] = Negated(direction)
                             THEN direction
                             ELSE nextDirectionQueue[1]
        ELSE /\ nextDirectionQueue' = nextDirectionQueue
             /\ direction' = direction
      ]_vars

\* C4 witness: the last update() consumed the reverse of the heading and a
\* later entry is still waiting.
C4_Witness ==
    /\ outcome # END_NONE
    /\ reversal
    /\ Len(nextDirectionQueue) = 1
    /\ ~dropped

\* C5: setnextDirection(vx, vy) leaves the queue unchanged when it holds 2
\* entries or when (vx, vy) equals the last queued entry, and appends
\* (vx, vy) otherwise; it changes nothing else; the queue never holds more
\* than 2 entries; (1,0) submitted twice to an empty queue leaves one entry.
C5_SubmitDirection ==
    /\ [](Len(nextDirectionQueue) <= 2)
    /\ [][\A v \in DIR : SetnextDirection(v) =>
            /\ nextDirectionQueue' =
                 IF \/ Len(nextDirectionQueue) = 2
                    \/ /\ Len(nextDirectionQueue) > 0
                       /\ nextDirectionQueue[Len(nextDirectionQueue)] = v
                 THEN nextDirectionQueue
                 ELSE nextDirectionQueue \o <<v>>
            /\ (nextDirectionQueue = <<DIR_RIGHT>> /\ v = DIR_RIGHT)
                  => Len(nextDirectionQueue') = 1
            /\ UNCHANGED <<body, food, direction, growFlag, willStepOver,
                           mapSize, mapArea>>
         ]_vars

\* C5 witness: (1,0) was submitted again while it was the only entry, and
\* was dropped.
C5_Witness ==
    /\ dropped
    /\ nextDirectionQueue = <<DIR_RIGHT>>

\* C6: after every completed update(), whatever it returned, no food cell
\* is a body cell; a cell just eaten is no longer food, also on the tick
\* that fills the board.
C6_FoodDisjointFromBody ==
    outcome # END_NONE => Cells(food) \cap Cells(body) = {}

\* C7: update() returns COMPLETE exactly when it does not crash and the
\* body is then width*height cells long; no update() returns CONTINUE while
\* the body has that length.
C7_CompleteExactly ==
    /\ outcome = END_COMPLETE => Len(body) = mapSize.width * mapSize.height
    /\ outcome = END_CONTINUE => Len(body) # mapSize.width * mapSize.height

\* C7 witness: the update() that ate the last food returned COMPLETE.
C7_Witness ==
    /\ outcome = END_COMPLETE
    /\ eating
    /\ postTicks = 0

\* C8: a cell the food spawner adds is, for every random choice, on the
\* board, not a body cell (the new head included) and not a remaining food
\* cell; when exactly one board cell is unoccupied once the eaten food is
\* removed, the new food is that cell.
C8_SpawnedCell ==
    [][(Update /\ eating' /\ Len(body') # mapArea) =>
        LET kept == Uneaten(food, body'[1])
            free == (BoardSet \ Cells(body')) \ Cells(kept)
            added == food'[Len(food')]
        IN /\ Len(food') = Len(kept) + 1 =>
                /\ SubSeq(food', 1, Len(kept)) = kept
                /\ OnBoard(added)
                /\ added \notin Cells(body')
                /\ added \notin Cells(kept)
           /\ Cardinality(free) = 1 =>
                /\ Len(food') = Len(kept) + 1
                /\ free = { added }
      ]_vars

\* C8 witness: the spawner has just put the food on the only free cell.
C8_Witness ==
    /\ outcome = END_CONTINUE
    /\ eating
    /\ Len(food) = 1
    /\ OnBoard(food[1])
    /\ BoardSet \ Cells(body) = { food[1] }

\* C9 as claimed: once an update() has returned CRASH or COMPLETE, no later
\* update() returns CONTINUE.
C9_TerminalOutcome ==
    ended => outcome # END_CONTINUE

\* C9 as amended: a crash repeats.  If the last update() returned CRASH for
\* the cell one step ahead in the present heading, the queue is empty and
\* willStepOver is false, the next update() returns CRASH again.
C9_CrashRepeats ==
    [][(/\ Update
        /\ outcome = END_CRASH
        /\ nextDirectionQueue = << >>
        /\ ~willStepOver
        /\ nextHead = Ahead(body, direction, 1)) => outcome' = END_CRASH
      ]_vars

\* C9 witness: a second update() in a row has crashed into the body, with
\* nothing pending.
C9_Witness ==
    /\ postTicks = 1
    /\ outcome = END_CRASH
    /\ Len(body) # mapArea
    /\ nextDirectionQueue = << >>
    /\ nextHead = Ahead(body, direction, 1)
    /\ OnBoard(nextHead)
    /\ ~reversal

\* C10: an update() that returns CRASH leaves body, food and growFlag as
\* they were; it may only have consumed the front queue entry, changed the
\* heading and cleared willStepOver.
C10_CrashFrame ==
    [][(Update /\ outcome' = END_CRASH) =>
        /\ body' = body
        /\ food' = food
        /\ growFlag' = growFlag
        /\ mapSize' = mapSize
        /\ mapArea' = mapArea
        /\ willStepOver' = FALSE
        /\ nextDirectionQueue' = IF Len(nextDirectionQueue) > 0
                                 THEN Tail(nextDirectionQueue)
                                 ELSE nextDirectionQueue
        /\ direction' \in { direction } \cup Cells(nextDirectionQueue)
      ]_vars

\* C10 witness: the first crash of a game, with growFlag still set and a
\* direction still queued.
C10_Witness ==
    /\ outcome = END_CRASH
    /\ postTicks = 0
    /\ growFlag
    /\ Len(nextDirectionQueue) = 1
    /\ ~dropped

\* the constructor has run
Constructed == Len(body) > 0

\* C11: new Snake(15, 15) yields body [(5,7),(4,7),(3,7)], food {(9,7)},
\* heading (1,0), an empty pending queue and both flags false.
C11_Board15 ==
    (Constructed /\ mapSize = [width |-> 15, height |-> 15]) =>
        /\ body = << Coord(5, 7), Coord(4, 7), Coord(3, 7) >>
        /\ food = << Coord(9, 7) >>
        /\ direction = Vector(1, 0)
        /\ nextDirectionQueue = << >>
        /\ ~growFlag
        /\ ~willStepOver

\* C11 witness: the 15x15 engine has been constructed.
C11_Witness ==
    /\ Constructed
    /\ mapSize = [width |-> 15, height |-> 15]
    /\ mapArea = 225

\* the placement of C12 for the half-spread d
PlacedWith(d) ==
    LET w == mapSize.width
        h == mapSize.height
        row == IF h % 2 = 0 THEN (h \div 2) - 1 ELSE h \div 2
        headX == (w \div 2) - d
        foodX == IF w % 2 = 1 THEN (w \div 2) + d ELSE (w \div 2) + d - 1
    IN /\ body = << Coord(headX, row), Coord(headX - 1, row),
                    Coord(headX - 2, row) >>
       /\ food = << Coord(foodX, row) >>

\* C12 as claimed: the head is at x = floor(width/2) - d and the food at
\* floor(width/2) + d (width odd) or floor(width/2) + d - 1 (width even),
\* with d = 1 if width <= 5 and d = 2 otherwise, the body being head,
\* head-1, head-2 on the centre row.
C12_PlacementUpTo5 ==
    Constructed => PlacedWith(IF mapSize.width <= 5 THEN 1 ELSE 2)

\* C12 as amended: the same placement with d = 1 if width <= 3 or
\* width = 5, and d = 2 otherwise (so d = 2 for width 4); on a 5x5 board
\* d = 1 is used.
C12_Placement ==
    /\ Constructed =>
          PlacedWith(IF mapSize.width <= 3 \/ mapSize.width = 5 THEN 1 ELSE 2)
    /\ (Constructed /\ mapSize = [width |-> 5, height |-> 5]) =>
          body[1] = Coord(1, 2)

\* C12 witness: the 5x5 engine has been constructed with d = 1.
C12_Witness ==
    /\ Constructed
    /\ mapSize = [width |-> 5, height |-> 5]
    /\ body[1].x = 1
    /\ food[1].x = 3

\* C13 as claimed: for every positive width, headX + foodX = width - 1 and
\* foodX - headX >= 3.
C13_SymmetricAndSeparated ==
    Constructed =>
        /\ body[1].x + food[1].x = mapSize.width - 1
        /\ food[1].x - body[1].x >= 3

\* C13 as amended: headX + foodX = width - 1 for every positive width;
\* foodX - headX >= 3 for width 4 and every width >= 6, while it is 2 for
\* the widths 1, 3 and 5 and 1 for width 2.
C13_Symmetric ==
    Constructed =>
        /\ body[1].x + food[1].x = mapSize.width - 1
        /\ (mapSize.width = 4 \/ mapSize.width >= 6)
              => food[1].x - body[1].x >= 3
        /\ mapSize.width \in {1, 3, 5} => food[1].x - body[1].x = 2
        /\ mapSize.width = 2 => food[1].x - body[1].x = 1

\* C13 witness: an even width, 8, with head at 2 and food at 5.
C13_Witness ==
    /\ Constructed
    /\ mapSize.width = 8
    /\ body[1].x = 2
    /\ food[1].x = 5

\* the cell between the two front body elements, when they are two apart
Between(a, c) == Coord((a.x + c.x) \div 2, (a.y + c.y) \div 2)

\* C14: stepOver is one-shot. An update() that finds willStepOver set has
\* the candidate head + 2 * heading, and the wall test, the self-collision
\* test and the eating test look at that landing cell only, so a body
\* segment or a food on the cell stepped over causes neither a crash nor
\* eating. willStepOver is false after every update(), whatever it returns,
\* and only stepOver() sets it, so the following update() displaces the
\* head by exactly one cell unless stepOver() has been called again.
C14_StepOverOneShot ==
    [][/\ Update =>
          LET v == HeadingFor(direction, nextDirectionQueue)
              landing == IF willStepOver
                         THEN Ahead(body, v, 2) ELSE Ahead(body, v, 1)
          IN /\ willStepOver' = FALSE
             /\ nextHead' = landing
             /\ (outcome' = END_CRASH) <=>
                   (\/ ~OnBoard(landing)
                    \/ \E i \in 1..(Len(body) - 1) : body[i] = landing)
             /\ outcome' # END_CRASH =>
                   /\ body'[1] = landing
                   /\ eating' <=> landing \in Cells(food)
                   /\ landing \notin Cells(food) => food' = food
       /\ (willStepOver' /\ ~willStepOver) => StepOver
      ]_vars

\* C14 witness: the head has just landed two cells ahead, over a cell that
\* holds a food, and nothing was eaten.
C14_Witness ==
    /\ outcome = END_CONTINUE
    /\ ~eating
    /\ ~willStepOver
    /\ body[1] = Ahead(<<body[2]>>, direction, 2)
    /\ Between(body[1], body[2]) \in Cells(food)
    /\ Cells(food) \cap Cells(body) = {}

\* C15: grow() changes nothing but growFlag. The next update() that does
\* not crash keeps the tail (the new body is the candidate followed by the
\* whole old body), growFlag is false after every update() that returns
\* CONTINUE or COMPLETE, and only grow() sets it, so one grow() lengthens
\* the body by at most one cell in total: an update() never adds more than
\* one cell, and adds none when growFlag is clear and nothing is eaten.
C15_GrowOnce ==
    [][/\ Grow =>
          /\ growFlag'
          /\ UNCHANGED <<mapSize, mapArea, body, food, direction,
                         nextDirectionQueue, willStepOver, outcome>>
       /\ (Update /\ outcome' # END_CRASH) =>
          /\ growFlag' = FALSE
          /\ growFlag => body' = <<Candidate>> \o body
          /\ Len(body') <= Len(body) + 1
          /\ (~growFlag /\ Candidate \notin Cells(food))
                => Len(body') = Len(body)
       /\ (growFlag' /\ ~growFlag) => Grow
      ]_vars

\* C15 witness: after one grow() the snake of three cells is four cells
\* long without having eaten, and the flag is clear again.
C15_Witness ==
    /\ outcome = END_CONTINUE
    /\ ~eating
    /\ ~growFlag
    /\ Len(body) = 4
    /\ NoTwoEqual(body)

C17_CellsOnBoard ==
    \A c \in Cells(body) \cup Cells(food) : OnBoard(c)

\* C18: whenever update() returns COMPLETE the body is a permutation of the
\* board cells, on every board size and after any sequence of grow(),
\* stepOver() and setnextDirection() calls.
C18_CompleteIsPermutation ==
    outcome = END_COMPLETE =>
        /\ Len(body) = mapArea
        /\ NoTwoEqual(body)
        /\ Cells(body) = BoardSet

\* the sum of the horizontal and the vertical distance of two cells
Manhattan(a, c) ==
    (IF a.x >= c.x THEN a.x - c.x ELSE c.x - a.x)
        + (IF a.y >= c.y THEN a.y - c.y ELSE c.y - a.y)

\* C19: in every run in which stepOver() is never called, consecutive body
\* elements are orthogonally adjacent (Manhattan distance exactly 1), at
\* construction and after every update().
C19_BodyContiguous ==
    \A i \in 1..(Len(body) - 1) : Manhattan(body[i], body[i + 1]) = 1

\* C19 witness: the snake has turned a corner and grown.
C19_Witness ==
    /\ outcome = END_CONTINUE
    /\ Len(body) >= 4
    /\ body[1].x = body[2].x
    /\ body[2].y = body[3].y
    /\ body[1].y # body[3].y
====
